---- MODULE Spec2Model ----
(***************************************************************************)
(* A model of the piano-note-detector tone scripts:                        *)
(*   generate_tone.py    generate_sine_wave, play_tone, the main sequence  *)
(*   loop_tone.py        play_tone_loop and its SIGINT handler             *)
(*   continuous_tone.py  play_continuous_tone (sox, then the afplay loop)  *)
(*                                                                         *)
(* Real numbers are carried as exact fractions.  A duration is a number of *)
(* 1/DurDen seconds, an amplitude a number of 1/AmpDen, and math.sin is    *)
(* tabulated to 1/SinScale at the PhaseDen phases a frequency and a sample *)
(* rate drawn from the input sets can produce.  Quarters and powers of two *)
(* are exact as floats, so sample_rate * duration and i / sample_rate are  *)
(* the fractions written here.  The table holds 0 and +-1 exactly and the  *)
(* other values to four decimals, so a sample off the peaks and the zero   *)
(* crossings may differ from the float result in its last unit.            *)
(***************************************************************************)
EXTENDS Integers, Sequences, FiniteSets, TLC

VARIABLES
    \* generate_sine_wave: arguments, locals, the open writer, the files on disk
    frequency, duration, sample_rate, amplitude,
    gpc, num_samples, i, samples, wi, wav, fs,
    \* repeated calls of generate_sine_wave: calls made, first result per ToneSpec
    calls, results,
    \* the names of the files the playback scripts have on disk
    disk,
    \* generate_tone.py main and play_tone: position, note index, exception in
    \* flight, the player invocations so far
    ppc, note, exc, played,
    \* loop_tone.py: position, note played, player runs started, player processes
    \* alive, exit codes seen, whether SIGINT arrived
    lpc, lnote, invocations, running, exits, interrupted,
    \* continuous_tone.py: position, arguments, locals of the fallback, outcome of
    \* sox, outcomes of the afplay runs, the exception that left the function
    cpc, cfreq, cdur, loops, li, soxResult, cexits, escaped

genVars == <<frequency, duration, sample_rate, amplitude,
             gpc, num_samples, i, samples, wi, wav, fs>>
detVars == <<calls, results>>
playVars == <<ppc, note, exc, played>>
loopVars == <<lpc, lnote, invocations, running, exits, interrupted>>
contVars == <<cpc, cfreq, cdur, loops, li, soxResult, cexits, escaped>>
scriptVars == <<disk, playVars, loopVars, contVars>>
vars == <<genVars, detVars, scriptVars>>

----------------------------------------------------------------------------
(* Units of the fractions, and the sine table.                              *)

DurDen == 4
AmpDen == 4
PhaseDen == 16
SinScale == 10000

\* math.sin(2*pi*m/16) to four decimals, m = 0..15
SinTab == <<0, 3827, 7071, 9239, 10000, 9239, 7071, 3827,
            0, -3827, -7071, -9239, -10000, -9239, -7071, -3827>>

\* math.sin(2 * math.pi * f * t) at t = k / sr, in 1/SinScale
Sin(f, k, sr) == SinTab[((f * k * (PhaseDen \div sr)) % PhaseDen) + 1]

----------------------------------------------------------------------------
(* Program constants.                                                       *)

\* struct format '<h': a signed 16-bit value
ShortMin == -32768
ShortMax == 32767

\* line 22: the factor a raw value in [-1, 1] is scaled by
FullScalePow2 == ShortMax + 1
FullScale == 32767
\* lines 28-29: mono, 2 bytes per sample
NChannels == 1
SampWidth == 2

----------------------------------------------------------------------------
(* Input sets.                                                              *)

\* the input sets reach below zero: frequencies from -LowFreq, durations from -LowDur
LowFreq == 1
MaxFreq == 3
LowDur == 2
MaxDur == 6
MaxAmp == 5

Frequencies == (0 - LowFreq)..MaxFreq
Durations == (0 - LowDur)..MaxDur
\* the sample rates whose phases k/sr the sine table holds
SampleRates == {sr \in 1..PhaseDen : PhaseDen % sr = 0}
Amplitudes == 1..MaxAmp

----------------------------------------------------------------------------
(* Pure helpers of generate_sine_wave.                                      *)

Abs(x) == IF x < 0 THEN 0 - x ELSE x

\* Python int() of the float num/den (den > 0): truncation toward zero
PyIntFloor(num, den) == num \div den
PyInt(num, den) == IF num >= 0 THEN num \div den ELSE 0 - ((0 - num) \div den)

\* Python round() of num/den (den > 0): to nearest, ties to even
Round(num, den) ==
    LET fl == num \div den
        r2 == 2 * (num - fl * den)
    IN  IF r2 < den THEN fl
        ELSE IF r2 > den THEN fl + 1
        ELSE IF fl % 2 = 0 THEN fl ELSE fl + 1

\* line 13: num_samples = int(sample_rate * duration)
NumSamplesRound(sr, dur) == Round(sr * dur, DurDen)
NumSamplesAbs(sr, dur) == PyInt(Abs(sr * dur), DurDen)
NumSamples(sr, dur) == PyInt(sr * dur, DurDen)

\* lines 19-22: sample_int = int(amplitude * sin(2*pi*frequency*(k/sr)) * 32767)
RawNum(f, k, sr, amp) == amp * Sin(f, k, sr) * FullScale
RawDen == AmpDen * SinScale
SampleIntFloor(f, k, sr, amp) == PyIntFloor(RawNum(f, k, sr, amp), RawDen)
SampleInt(f, k, sr, amp) == PyInt(RawNum(f, k, sr, amp), RawDen)

\* line 26: filename = f"tone_{frequency}hz.wav"
Filename(f) == <<"tone_", f, "hz.wav">>
Filenames == {Filename(f) : f \in Frequencies}

\* line 34: struct.pack('<h', sample) raises struct.error outside the short range
Packable(s) == ShortMin <= s /\ s <= ShortMax
PackBigEndian(s) == LET u == s % 65536 IN <<u \div 256, u % 256>>
Pack(s) == LET u == s % 65536 IN <<u % 256, u \div 256>>

----------------------------------------------------------------------------
(* The wave writer (wave.open(filename, 'w')) and the file it writes.       *)

NoFile == [exists |-> FALSE]
NoHeader == [written |-> FALSE]

\* open(filename, 'wb'): the file exists and is empty
OpenForWriteKeep(old) == IF old = NoFile THEN [exists |-> TRUE, hdr |-> NoHeader, data |-> <<>>]
                         ELSE old
OpenForWrite(old) == [exists |-> TRUE, hdr |-> NoHeader, data |-> <<>>]

\* Wave_write after initfp and the three setters of lines 28-30
NewWriter(sr) == [nchannels |-> NChannels, sampwidth |-> SampWidth, framerate |-> sr,
                  nframes |-> 0, datalength |-> 0, datawritten |-> 0,
                  headerwritten |-> FALSE]
NoWriter == [headerwritten |-> FALSE]

HeaderOf(w) == [written |-> TRUE, nchannels |-> w.nchannels, sampwidth |-> w.sampwidth,
                framerate |-> w.framerate, datalength |-> w.datalength]

\* Wave_write._ensure_header_written(datasize) followed by _write_header
EnsureHeader(w, datasize) ==
    IF w.headerwritten THEN w
    ELSE LET nf == IF w.nframes = 0 THEN datasize \div (w.nchannels * w.sampwidth)
                   ELSE w.nframes
         IN  [w EXCEPT !.nframes = nf,
                       !.datalength = nf * w.nchannels * w.sampwidth,
                       !.headerwritten = TRUE]

\* Wave_write._patchheader: the header's data length becomes the bytes written
PatchHeader(w) == [w EXCEPT !.datalength = w.datawritten]

\* Wave_write.writeframes(data): the writer and the file afterwards
WriterAfterFrames(w, data) ==
    LET w1 == EnsureHeader(w, Len(data))
        w2 == [w1 EXCEPT !.datawritten = w1.datawritten + Len(data)]
    IN  IF w2.datalength # w2.datawritten THEN PatchHeader(w2) ELSE w2

\* Wave_write.close(): header written if it was not, then patched
WriterAfterClose(w) ==
    LET w1 == EnsureHeader(w, 0)
    IN  IF w1.datalength # w1.datawritten THEN PatchHeader(w1) ELSE w1

FileOf(w, data) == [exists |-> TRUE,
                    hdr |-> IF w.headerwritten THEN HeaderOf(w) ELSE NoHeader,
                    data |-> data]

----------------------------------------------------------------------------
(* generate_sine_wave, one step per loop iteration.                         *)

GenIdle ==
    /\ gpc = "idle"
    /\ frequency = 0 /\ duration = 0 /\ sample_rate = 1 /\ amplitude = 0
    /\ num_samples = 0 /\ i = 0 /\ samples = <<>> /\ wi = 0
    /\ wav = NoWriter

\* lines 9-16: entry with the arguments bound, num_samples computed, samples = []
Enter(f, dur, sr, amp) ==
    /\ frequency' = f /\ duration' = dur /\ sample_rate' = sr /\ amplitude' = amp
    /\ num_samples' = NumSamples(sr, dur)
    /\ i' = 0 /\ samples' = <<>> /\ wi' = 0
    /\ wav' = NoWriter
    /\ gpc' = "synth"

\* lines 17-23: one iteration of the synthesis loop
SynthStep ==
    /\ gpc = "synth" /\ i < num_samples
    /\ samples' = Append(samples, SampleInt(frequency, i, sample_rate, amplitude))
    /\ i' = i + 1
    /\ UNCHANGED <<frequency, duration, sample_rate, amplitude, gpc, num_samples,
                   wi, wav, fs>>

\* lines 26-30: the loop is over; the file is opened and the parameters set
OpenWav ==
    /\ gpc = "synth" /\ i >= num_samples
    /\ fs' = [fs EXCEPT ![Filename(frequency)] = OpenForWrite(@)]
    /\ wav' = NewWriter(sample_rate)
    /\ wi' = 1
    /\ gpc' = "write"
    /\ UNCHANGED <<frequency, duration, sample_rate, amplitude, num_samples, i, samples>>

\* lines 33-34: one frame packed and written
WriteFrame ==
    /\ gpc = "write" /\ wi <= Len(samples) /\ Packable(samples[wi])
    /\ LET bytes == Pack(samples[wi])
           w == WriterAfterFrames(wav, bytes)
           name == Filename(frequency)
       IN  /\ wav' = w
           /\ fs' = [fs EXCEPT ![name] = FileOf(w, fs[name].data \o bytes)]
    /\ wi' = wi + 1
    /\ UNCHANGED <<frequency, duration, sample_rate, amplitude, gpc, num_samples,
                   i, samples>>

\* line 34 raising struct.error: the with block closes the writer, the error propagates
PackError ==
    /\ gpc = "write" /\ wi <= Len(samples) /\ ~Packable(samples[wi])
    /\ LET w == WriterAfterClose(wav)
           name == Filename(frequency)
       IN  /\ wav' = w
           /\ fs' = [fs EXCEPT ![name] = FileOf(w, fs[name].data)]
    /\ gpc' = "raised"
    /\ UNCHANGED <<frequency, duration, sample_rate, amplitude, num_samples,
                   i, samples, wi>>

\* lines 27 (leaving the with block) and 36: close, return filename
CloseWav ==
    /\ gpc = "write" /\ wi > Len(samples)
    /\ LET w == WriterAfterClose(wav)
           name == Filename(frequency)
       IN  /\ wav' = w
           /\ fs' = [fs EXCEPT ![name] = FileOf(w, fs[name].data)]
    /\ gpc' = "done"
    /\ UNCHANGED <<frequency, duration, sample_rate, amplitude, num_samples,
                   i, samples, wi>>

----------------------------------------------------------------------------
(* The playback scripts before they start.                                  *)

PlayIdle == ppc = "main" /\ note = 1 /\ exc = "none" /\ played = <<>>
LoopIdle == /\ lpc = "run" /\ lnote = "A4" /\ invocations = 0 /\ running = 0
            /\ exits = <<>> /\ interrupted = FALSE
ContIdle == /\ cpc = "sox" /\ cfreq = "440" /\ cdur = 0 /\ loops = 0 /\ li = 0
            /\ soxResult = "none" /\ cexits = <<>> /\ escaped = "none"
ScriptsIdle == disk = {} /\ PlayIdle /\ LoopIdle /\ ContIdle

----------------------------------------------------------------------------
(* One call of generate_sine_wave on any input of the input sets.           *)

NoResults == <<>>

Call ==
    /\ gpc = "idle"
    /\ \E f \in Frequencies, dur \in Durations, sr \in SampleRates, amp \in Amplitudes :
          Enter(f, dur, sr, amp)
    /\ UNCHANGED <<fs, calls, results, scriptVars>>

GenInit ==
    /\ GenIdle
    /\ fs = [n \in Filenames |-> NoFile]
    /\ calls = 0 /\ results = NoResults

InitGen == GenInit /\ ScriptsIdle

NextGen ==
    \/ Call
    \/ SynthStep /\ UNCHANGED <<detVars, scriptVars>>
    \/ OpenWav /\ UNCHANGED <<detVars, scriptVars>>
    \/ WriteFrame /\ UNCHANGED <<detVars, scriptVars>>
    \/ PackError /\ UNCHANGED <<detVars, scriptVars>>
    \/ CloseWav /\ UNCHANGED <<detVars, scriptVars>>

SpecGen == InitGen /\ [][NextGen]_vars

----------------------------------------------------------------------------
(* Repeated calls of generate_sine_wave: the files of earlier calls stay on *)
(* disk, and calls of one frequency share a file name.                      *)

MaxCalls == 3

DetFrequencies == {1, 2}
DetDurations == {2, 3}
DetRates == {4}
DetAmplitudes == {2, 4}

CurrentSpec == <<frequency, duration, sample_rate, amplitude>>
CurrentFile == fs[Filename(frequency)]
CurrentResult == [samples |-> samples, file |-> CurrentFile]

CallAgain ==
    /\ gpc = "idle" /\ calls < MaxCalls
    /\ \E f \in DetFrequencies, dur \in DetDurations, sr \in DetRates,
          amp \in DetAmplitudes : Enter(f, dur, sr, amp)
    /\ UNCHANGED <<fs, calls, results, scriptVars>>

\* line 36: the call returns; the caller keeps the first result of each ToneSpec
Return ==
    /\ gpc = "done"
    /\ gpc' = "idle"
    /\ calls' = calls + 1
    /\ results' = IF CurrentSpec \in DOMAIN results THEN results
                  ELSE results @@ (CurrentSpec :> CurrentResult)
    /\ UNCHANGED <<frequency, duration, sample_rate, amplitude, num_samples,
                   i, samples, wi, wav, fs, scriptVars>>

NextDet ==
    \/ CallAgain
    \/ SynthStep /\ UNCHANGED <<detVars, scriptVars>>
    \/ OpenWav /\ UNCHANGED <<detVars, scriptVars>>
    \/ WriteFrame /\ UNCHANGED <<detVars, scriptVars>>
    \/ CloseWav /\ UNCHANGED <<detVars, scriptVars>>
    \/ Return

SpecDet == InitGen /\ [][NextDet]_vars

----------------------------------------------------------------------------
(* Properties of generate_sine_wave.                                        *)

\* a valid ToneSpec: frequency > 0, duration > 0, sample_rate > 0, 0 < amplitude <= 1
Valid == /\ frequency > 0 /\ duration > 0 /\ sample_rate > 0
         /\ amplitude > 0 /\ amplitude <= AmpDen

\* the synthesis loop of the current call has finished
Synthesized == gpc \in {"write", "done", "raised"}

Clamp(x) == IF x < ShortMin THEN ShortMin ELSE IF x > ShortMax THEN ShortMax ELSE x

\* a standard reader: frame count from the header, little-endian signed samples
FrameSize(file) == file.hdr.nchannels * file.hdr.sampwidth
Frames(file) == file.hdr.datalength \div FrameSize(file)
Unpack(lo, hi) == LET u == lo + 256 * hi IN IF u >= 32768 THEN u - 65536 ELSE u
Decode(file) ==
    LET n == IF Frames(file) * 2 <= Len(file.data) THEN Frames(file)
             ELSE Len(file.data) \div 2
    IN  [k \in 1..n |-> Unpack(file.data[2 * k - 1], file.data[2 * k])]

\* C1 as stated: for a valid ToneSpec the buffer has round(sample_rate * duration)
\* samples, also when sample_rate * duration is not an integer.
C1_LengthIsRound ==
    (Synthesized /\ Valid) => Len(samples) = Round(sample_rate * duration, DurDen)

\* C1 amended: for a valid ToneSpec the buffer has floor(sample_rate * duration)
\* samples: N <= sample_rate * duration < N + 1.
C1_LengthIsFloor ==
    (Synthesized /\ Valid) =>
        /\ Len(samples) * DurDen <= sample_rate * duration
        /\ sample_rate * duration < (Len(samples) + 1) * DurDen

C1_Witness ==
    /\ gpc = "done" /\ Valid
    /\ (sample_rate * duration) % DurDen # 0
    /\ Len(samples) > 0

\* C2 as stated: every sample is round(amplitude * sin(2 pi f i / sr) * 32767),
\* to nearest, clamped to [-32768, 32767].
C2_SampleIsRounded ==
    Valid => \A k \in 1..Len(samples) :
        samples[k] = Clamp(Round(RawNum(frequency, k - 1, sample_rate, amplitude), RawDen))

\* C2 amended: every sample is amplitude * sin(2 pi f i / sr) * 32767 truncated
\* toward zero (|q| <= |x| < |q| + 1, q never of the opposite sign); no clamp is
\* applied, and for a valid ToneSpec a clamp to [-32768, 32767] would change nothing.
C2_SampleIsTruncated ==
    \A k \in 1..Len(samples) :
        LET x == RawNum(frequency, k - 1, sample_rate, amplitude)
            q == samples[k]
        IN  /\ Abs(q) * RawDen <= Abs(x)
            /\ Abs(x) < (Abs(q) + 1) * RawDen
            /\ (x >= 0 => q >= 0) /\ (x <= 0 => q <= 0)
            /\ Valid => Clamp(q) = q

C2_Witness ==
    /\ gpc = "done" /\ Valid
    /\ \E k \in 1..Len(samples) :
          LET x == RawNum(frequency, k - 1, sample_rate, amplitude)
          IN  x < 0 /\ x % RawDen # 0 /\ samples[k] # Round(x, RawDen)

\* C3: for a valid ToneSpec every sample lies in [-32768, 32767] and packing a
\* sample as a signed 16-bit value never fails.
C3_SamplesInRange ==
    Valid => /\ gpc # "raised"
             /\ \A k \in 1..Len(samples) : -32768 <= samples[k] /\ samples[k] <= 32767

C3_Witness ==
    /\ gpc = "done" /\ Valid
    /\ \E k \in 1..Len(samples) : samples[k] = 32767
    /\ \E k \in 1..Len(samples) : samples[k] = -32767

\* C4 as stated: no input makes generate_sine_wave raise, and the samples stay in
\* [-32768, 32767] also for an amplitude above 1.0.
C4_NeverRaises ==
    /\ gpc # "raised"
    /\ \A k \in 1..Len(samples) : -32768 <= samples[k] /\ samples[k] <= 32767

\* C5: for a valid ToneSpec, decoding the written file gives the buffer back, sample
\* for sample and in order, and the header's frame count is the buffer length.
C5_RoundTrip ==
    (gpc = "done" /\ Valid) =>
        /\ CurrentFile.exists /\ CurrentFile.hdr.written
        /\ CurrentFile.hdr.nchannels = 1 /\ CurrentFile.hdr.sampwidth = 2
        /\ Frames(CurrentFile) = Len(samples)
        /\ Decode(CurrentFile) = samples

C5_Witness ==
    /\ gpc = "done" /\ Valid /\ Len(samples) >= 3
    /\ \E k \in 1..Len(samples) : samples[k] < -256
    /\ \E k \in 1..Len(samples) : samples[k] > 256

\* C6: a duration <= 0 gives an empty buffer and, without an error, a file with a
\* header (1 channel, 2-byte samples, the given sample rate) and zero data bytes.
C6_EmptyTone ==
    duration <= 0 =>
        /\ gpc # "raised"
        /\ samples = <<>>
        /\ gpc = "done" =>
              /\ CurrentFile.exists /\ CurrentFile.hdr.written
              /\ CurrentFile.hdr.nchannels = 1 /\ CurrentFile.hdr.sampwidth = 2
              /\ CurrentFile.hdr.framerate = sample_rate
              /\ CurrentFile.hdr.datalength = 0
              /\ CurrentFile.data = <<>>

C6_Witness ==
    /\ gpc = "done" /\ duration < 0
    /\ sample_rate * duration <= 0 - DurDen

\* C7: a call with the ToneSpec of an earlier call produces the same buffer and the
\* same file as that call did, whatever calls came in between.
C7_Deterministic ==
    (gpc = "done" /\ CurrentSpec \in DOMAIN results) =>
        results[CurrentSpec] = CurrentResult

C7_Witness ==
    /\ gpc = "done" /\ calls = 2
    /\ CurrentSpec \in DOMAIN results
    /\ \E other \in DOMAIN results :
          other # CurrentSpec /\ other[1] = frequency

----------------------------------------------------------------------------
(* The external player, as subprocess.run([...], check=True) sees it: it    *)
(* exits with zero, exits non-zero, or its binary is missing.               *)

PlayerOutcomes == {"zero", "nonzero", "missing"}

\* the exception subprocess.run(..., check=True) raises on an outcome
RunRaises(outcome) == IF outcome = "nonzero" THEN "CalledProcessError"
                      ELSE IF outcome = "missing" THEN "FileNotFoundError"
                      ELSE "none"

----------------------------------------------------------------------------
(* generate_tone.py: the main sequence and play_tone.  generate_sine_wave   *)
(* is modelled above; here only the file it leaves on disk matters.         *)

\* lines 63-68
Notes == << [freq |-> "440", name |-> "A4"], [freq |-> "261.63", name |-> "C4"],
            [freq |-> "329.63", name |-> "E4"], [freq |-> "523.25", name |-> "C5"] >>

\* line 51: except subprocess.CalledProcessError
PlayToneCatches(e) == e = "CalledProcessError"

\* lines 53-56: finally: if os.path.exists(filename): os.remove(filename)
CleanupUnlessRaising(d, name) == IF exc = "none" THEN d \ {name} ELSE d
Cleanup(d, name) == d \ {name}

\* lines 70-72 and 40-45: the next note; play_tone generates its file
MainNext ==
    /\ ppc = "main" /\ note <= Len(Notes)
    /\ disk' = disk \cup {Filename(Notes[note].freq)}
    /\ ppc' = "play"
    /\ UNCHANGED <<note, exc, played>>

\* lines 48-52: the player runs; CalledProcessError is caught and reported
PlayRun ==
    /\ ppc = "play"
    /\ \E o \in PlayerOutcomes :
          /\ played' = Append(played, [note |-> note,
                                       file |-> Filename(Notes[note].freq),
                                       outcome |-> o])
          /\ exc' = IF PlayToneCatches(RunRaises(o)) THEN "none" ELSE RunRaises(o)
    /\ ppc' = "finally"
    /\ UNCHANGED <<note, disk>>

\* lines 53-56: the finally block, then the return to main or the propagation
PlayFinally ==
    /\ ppc = "finally"
    /\ disk' = Cleanup(disk, Filename(Notes[note].freq))
    /\ IF exc = "none"
       THEN ppc' = "main" /\ note' = note + 1
       ELSE ppc' = "aborted" /\ note' = note
    /\ UNCHANGED <<exc, played>>

\* line 74: the loop over the notes is over
MainEnd ==
    /\ ppc = "main" /\ note > Len(Notes)
    /\ ppc' = "done"
    /\ UNCHANGED <<note, exc, played, disk>>

notPlayVars == <<genVars, detVars, loopVars, contVars>>

InitPlay == GenInit /\ ScriptsIdle

NextPlay ==
    \/ MainNext /\ UNCHANGED notPlayVars
    \/ PlayRun /\ UNCHANGED notPlayVars
    \/ PlayFinally /\ UNCHANGED notPlayVars
    \/ MainEnd /\ UNCHANGED notPlayVars

SpecPlay == InitPlay /\ [][NextPlay]_vars

\* C8: when play_tone has returned or propagated (player exit zero, non-zero, or
\* binary missing) no file it generated exists; the notes are played once each in
\* the order of the list, a non-zero exit leaves no exception in flight and the
\* sequence goes on to the end, and only a missing player aborts it.
C8_CleanupAndContinue ==
    /\ ppc \in {"main", "done", "aborted"} =>
          \A k \in 1..Len(played) : played[k].file \notin disk
    /\ \A k \in 1..Len(played) : played[k].note = k
    /\ ppc = "finally" /\ played[Len(played)].outcome = "nonzero" => exc = "none"
    /\ ppc = "aborted" => played[Len(played)].outcome = "missing"
    /\ ppc = "done" => Len(played) = Len(Notes)
    /\ ppc \notin {"done", "aborted"} => ENABLED NextPlay

C8_Witness ==
    /\ ppc = "aborted" /\ disk = {}
    /\ Len(played) = Len(Notes)
    /\ \E k \in 1..(Len(played) - 1) : played[k].outcome = "nonzero"

----------------------------------------------------------------------------
(* generate_test_tones.py and loop_tone.py.                                 *)

MaxInvocations == 5

\* generate_test_tones.py lines 7-13 and 23
TestNotes == {"A4", "C4", "E4", "G4", "C5"}
TestFile(n) == <<n, "_test.wav">>

\* generate_test_tones.py lines 15-29: the five test files are written
GenerateTestTones ==
    /\ lpc = "run" /\ invocations = 0
    /\ \E n \in TestNotes : TestFile(n) \notin disk
    /\ disk' = disk \cup {TestFile(n) : n \in TestNotes}
    /\ UNCHANGED loopVars

\* lines 23-25: except subprocess.CalledProcessError: print, break
OnCalledProcessErrorContinue == "run"
OnCalledProcessError == "returned"

\* line 21: afplay is started
LoopStart ==
    /\ lpc = "run" /\ invocations < MaxInvocations
    /\ invocations' = invocations + 1
    /\ running' = running + 1
    /\ lpc' = "playing"
    /\ UNCHANGED <<lnote, exits, interrupted, disk>>

\* line 21 with no afplay binary: FileNotFoundError, which no clause catches
LoopNoPlayer ==
    /\ lpc = "run"
    /\ lpc' = "crashed"
    /\ UNCHANGED <<lnote, invocations, running, exits, interrupted, disk>>

\* line 21: afplay ends (it fails when the file is not there); lines 22-25
LoopFinish ==
    /\ lpc = "playing"
    /\ \E code \in (IF TestFile(lnote) \in disk THEN {0, 1} ELSE {1}) :
          /\ exits' = Append(exits, code)
          /\ lpc' = IF code = 0 THEN "sleep" ELSE OnCalledProcessError
    /\ running' = running - 1
    /\ UNCHANGED <<lnote, invocations, interrupted, disk>>

\* line 22: time.sleep(0.1) is over
LoopSleep ==
    /\ lpc = "sleep"
    /\ lpc' = "run"
    /\ UNCHANGED <<lnote, invocations, running, exits, interrupted, disk>>

\* lines 8-12: SIGINT runs signal_handler, whose sys.exit(0) raises SystemExit
\* where the loop stands; subprocess.run kills its child; no clause catches it
Interrupt ==
    /\ lpc \in {"run", "playing", "sleep"}
    /\ interrupted' = TRUE
    /\ running' = 0
    /\ lpc' = "exited"
    /\ UNCHANGED <<lnote, invocations, exits, disk>>

notLoopVars == <<genVars, detVars, playVars, contVars>>

\* line 33 calls play_tone_loop(440, "A4"); any note of the test files is an input
InitLoop ==
    /\ GenInit /\ disk = {} /\ PlayIdle /\ ContIdle
    /\ lpc = "run" /\ lnote \in TestNotes /\ invocations = 0 /\ running = 0
    /\ exits = <<>> /\ interrupted = FALSE

NextLoop ==
    \/ GenerateTestTones /\ UNCHANGED notLoopVars
    \/ LoopStart /\ UNCHANGED notLoopVars
    \/ LoopNoPlayer /\ UNCHANGED notLoopVars
    \/ LoopFinish /\ UNCHANGED notLoopVars
    \/ LoopSleep /\ UNCHANGED notLoopVars
    \/ Interrupt /\ UNCHANGED notLoopVars

SpecLoop == InitLoop /\ [][NextLoop]_vars

FailedOnce == \E k \in 1..Len(exits) : exits[k] # 0

C9_Inv ==
    /\ running <= 1
    /\ (running = 1) = (lpc = "playing")
    /\ \A k \in 1..(Len(exits) - 1) : exits[k] = 0
    /\ FailedOnce => lpc = "returned"
    /\ (~FailedOnce /\ ~interrupted) => lpc \in {"run", "playing", "sleep", "crashed"}
    /\ interrupted => lpc = "exited"

\* C9: at most one player runs at a time; while every run has exited with zero and
\* no signal has arrived the loop is still going; after a run that exits non-zero,
\* or after SIGINT, the loop has ended and the player is never started again.
C9_LoopUntilFailure ==
    /\ []C9_Inv
    /\ [][(FailedOnce \/ interrupted) => invocations' = invocations]_vars
    /\ [][(lpc = "sleep" /\ ~interrupted') => lpc' = "run"]_vars

C9_Witness ==
    /\ lpc = "returned" /\ Len(exits) >= 3
    /\ exits[Len(exits)] # 0

----------------------------------------------------------------------------
(* continuous_tone.py: play_continuous_tone.                                *)

\* line 7 and line 65: the default duration, and the one main passes
DefaultDuration == 30
MainDuration == 60
\* line 32 and line 45: the length of the looped file in seconds
LoopSeconds == 5

\* the other durations tried: -LowContDur .. MaxContDur
LowContDur == 1
MaxContDur == 12

ContDurations == ((0 - LowContDur)..MaxContDur) \cup {DefaultDuration, MainDuration}
ContFrequencies == {"440", "261.63"}

\* line 36
ContFile(f) == <<"continuous_", f, "hz.wav">>

\* line 23: except (subprocess.CalledProcessError, FileNotFoundError)
SoxCatchesExitOnly(e) == e = "CalledProcessError"
SoxCatches(e) == e \in {"CalledProcessError", "FileNotFoundError"}

\* line 50: except Exception
FallbackCatches(e) == e \in {"CalledProcessError", "FileNotFoundError",
                             "ImportError", "OSError"}

\* line 45: loops = duration // 5
Loops(d) == d \div LoopSeconds

\* where an exception raised in a try block leaves the function
AfterRaise(caught, e, handled) ==
    /\ cpc' = IF caught THEN handled ELSE "raised"
    /\ escaped' = IF caught THEN escaped ELSE e

\* lines 13-24: sox runs; a failure of it is caught and the fallback entered
RunSox ==
    /\ cpc = "sox"
    /\ \E o \in PlayerOutcomes :
          /\ soxResult' = o
          /\ IF RunRaises(o) = "none"
             THEN cpc' = "returned" /\ escaped' = escaped
             ELSE AfterRaise(SoxCatches(RunRaises(o)), RunRaises(o), "fallback")
    /\ UNCHANGED <<cfreq, cdur, loops, li, cexits, disk>>

\* lines 26-45: numpy is imported, the 5-second file written, loops computed
Prepare ==
    /\ cpc = "fallback"
    /\ \E r \in {"ok", "ImportError", "OSError"} :
          IF r = "ok"
          THEN /\ disk' = disk \cup {ContFile(cfreq)}
               /\ loops' = Loops(cdur)
               /\ cpc' = "loop" /\ escaped' = escaped
          ELSE /\ AfterRaise(FallbackCatches(r), r, "returned")
               /\ UNCHANGED <<disk, loops>>
    /\ li' = 0
    /\ UNCHANGED <<cfreq, cdur, soxResult, cexits>>

\* lines 46-48: one iteration of the afplay loop
LoopPlay ==
    /\ cpc = "loop" /\ li < loops
    /\ \E o \in PlayerOutcomes :
          /\ cexits' = Append(cexits, o)
          /\ IF RunRaises(o) = "none"
             THEN cpc' = cpc /\ escaped' = escaped /\ li' = li + 1
             ELSE AfterRaise(FallbackCatches(RunRaises(o)), RunRaises(o), "returned")
                  /\ li' = li
    /\ UNCHANGED <<cfreq, cdur, loops, soxResult, disk>>

\* line 46: range(loops) is exhausted
LoopEnd ==
    /\ cpc = "loop" /\ li >= loops
    /\ cpc' = "returned"
    /\ UNCHANGED <<cfreq, cdur, loops, li, soxResult, cexits, escaped, disk>>

notContVars == <<genVars, detVars, playVars, loopVars>>

InitCont ==
    /\ GenInit /\ disk = {} /\ PlayIdle /\ LoopIdle
    /\ cpc = "sox" /\ cfreq \in ContFrequencies /\ cdur \in ContDurations
    /\ loops = 0 /\ li = 0
    /\ soxResult = "none" /\ cexits = <<>> /\ escaped = "none"

NextCont ==
    \/ RunSox /\ UNCHANGED notContVars
    \/ Prepare /\ UNCHANGED notContVars
    \/ LoopPlay /\ UNCHANGED notContVars
    \/ LoopEnd /\ UNCHANGED notContVars

SpecCont == InitCont /\ [][NextCont]_vars

\* C10: the fallback (its file, its afplay runs) happens only after sox failed and
\* never after sox succeeded; afplay runs at most duration // 5 times, not at all when
\* duration < 5; no afplay run follows a failed one; no failure leaves the function.
C10_Fallback ==
    /\ (cpc \in {"fallback", "loop"} \/ cexits # <<>> \/ ContFile(cfreq) \in disk)
          => soxResult \in {"nonzero", "missing"}
    /\ soxResult = "zero" => cpc = "returned"
    /\ cdur < 5 => cexits = <<>>
    /\ cdur >= 5 => Len(cexits) * 5 <= cdur
    /\ \A k \in 1..(Len(cexits) - 1) : cexits[k] = "zero"
    /\ cpc # "raised" /\ escaped = "none"

C10_Witness ==
    /\ cpc = "returned" /\ soxResult = "missing"
    /\ Len(cexits) >= 2 /\ cexits[Len(cexits)] = "nonzero"

====
